---- MODULE Spec2Model ----
(***************************************************************************)
(* Model of the Replix plugin generator service (src/main.py).             *)
(*                                                                         *)
(* Text is modelled as a sequence of tokens.  A token is either a single   *)
(* character of an input string ("h", "H", " ", ".", ...) or a literal     *)
(* fragment of one of the templates ("import ", "Command", ...).  A file   *)
(* is a sequence of lines, each line a sequence of tokens.                 *)
(***************************************************************************)
EXTENDS Integers, Sequences, FiniteSets, TLC

VARIABLES db, records, now, call, resp

vars == <<db, records, now, call, resp>>

----------------------------------------------------------------------------
(* Bounds of the model.                                                    *)

MaxNameLen == 2
MaxCmds == 2
MaxPkgLen == 2
MaxRecords == 2
MaxClock == 1
MaxLimit == 2
IdLen == 2

(* history(limit: int = 20)                                                *)
DefaultLimit == 20

----------------------------------------------------------------------------
(* Python str methods on token sequences.                                  *)

Whitespace == {" "}

Lower(c) ==
    CASE c = "H" -> "h"
      [] c = "P" -> "p"
      [] OTHER -> c

Upper(c) ==
    CASE c = "h" -> "H"
      [] c = "p" -> "P"
      [] OTHER -> c

(* StrLower leaving the case as it is *)
StrLowerKeepsCase(s) == s

(* str.lower() *)
StrLower(s) == [i \in 1..Len(s) |-> Lower(s[i])]

(* str.replace(old, new) for a one-character old *)
StrReplace(s, old, new) == [i \in 1..Len(s) |-> IF s[i] = old THEN new ELSE s[i]]

RECURSIVE LStrip(_)
LStrip(s) ==
    IF s # << >> /\ Head(s) \in Whitespace THEN LStrip(Tail(s)) ELSE s

RECURSIVE RStrip(_)
RStrip(s) ==
    IF s # << >> /\ s[Len(s)] \in Whitespace
    THEN RStrip(SubSeq(s, 1, Len(s) - 1))
    ELSE s

(* str.strip() *)
Strip(s) == RStrip(LStrip(s))

(* str.capitalize(): first character upper-cased, the rest lower-cased *)
Capitalize(s) ==
    [i \in 1..Len(s) |-> IF i = 1 THEN Upper(s[i]) ELSE Lower(s[i])]

(* "." in s *)
Contains(s, c) == \E i \in 1..Len(s) : s[i] = c

----------------------------------------------------------------------------
(* Template renderer.                                                      *)

(* class CommandSpec; usage and description are Optional[str]: None and "" *)
(* are both falsy and both modelled by the empty sequence.                 *)
CommandSpec(name, description) ==
    [name |-> name, usage |-> << >>, description |-> description]

(* the block _plugin_yml appends for one command *)
YmlCommandBlock(cmd) ==
    LET cname == Strip(cmd.name)
    IN  IF cname = << >>
        THEN << >>
        ELSE << <<"  ">> \o cname \o <<":">> >>
             \o (IF cmd.description # << >>
                 THEN << <<"    description: ">> \o cmd.description >>
                 ELSE << >>)
             \o << <<"    usage: /">> \o cname,
                   <<"    permission: replix.">> \o cname,
                   <<"    permission-message: You don't have permission to use this command.">> >>

RECURSIVE YmlCommandLines(_)
YmlCommandLines(commands) ==
    IF commands = << >>
    THEN << >>
    ELSE YmlCommandBlock(Head(commands)) \o YmlCommandLines(Tail(commands))

(* _plugin_yml(name, main_class, description, commands) *)
PluginYml(name, main_class, description, commands) ==
    << <<"name: ">> \o name,
       <<"version: 1.0.0">>,
       <<"api-version: '1.20'">>,
       <<"main: ">> \o main_class,
       <<"description: ">> \o (IF description # << >> THEN description ELSE name) >>
    \o (IF commands # << >>
        THEN << <<"commands:">> >> \o YmlCommandLines(commands)
        ELSE << >>)

(* the filter of both comprehensions of _main_java: "if c.name" *)
MainJavaKeeps(c) == c.name # << >>

(* one line of register_cmds *)
RegisterLine(c) ==
    <<"        this.getCommand(\"">> \o c.name \o <<"\").setExecutor(new ">>
    \o Capitalize(c.name) \o <<"Command", "());">>

(* one line of imports_cmds *)
ImportLine(package_name, c) ==
    <<"import ">> \o package_name \o <<".commands.">>
    \o Capitalize(c.name) \o <<"Command", ";">>

RECURSIVE RegisterCmds(_)
RegisterCmds(commands) ==
    IF commands = << >>
    THEN << >>
    ELSE (IF MainJavaKeeps(Head(commands))
          THEN << RegisterLine(Head(commands)) >>
          ELSE << >>)
         \o RegisterCmds(Tail(commands))

RECURSIVE ImportsCmds(_, _)
ImportsCmds(package_name, commands) ==
    IF commands = << >>
    THEN << >>
    ELSE (IF MainJavaKeeps(Head(commands))
          THEN << ImportLine(package_name, Head(commands)) >>
          ELSE << >>)
         \o ImportsCmds(package_name, Tail(commands))

(* "\n".join(lines) placed on a line of its own in the template: an empty  *)
(* list still leaves one empty line.                                       *)
Joined(lines) == IF lines = << >> THEN << << >> >> ELSE lines

(* _main_java(package_name, class_name, description, commands) *)
MainJava(package_name, class_name, description, commands) ==
    << <<"package ">> \o package_name \o <<";">>,
       << >>,
       <<"import org.bukkit.plugin.java.JavaPlugin;">> >>
    \o Joined(ImportsCmds(package_name, commands))
    \o << << >>,
          <<"public class ">> \o class_name \o <<" extends JavaPlugin {">>,
          << >>,
          <<"    @Override">>,
          <<"    public void onEnable() {">>,
          <<"        getLogger().info(\"">>
              \o (IF description # << >> THEN description ELSE class_name)
              \o <<" enabled!\");">> >>
    \o Joined(RegisterCmds(commands))
    \o << <<"    }">>,
          << >>,
          <<"    @Override">>,
          <<"    public void onDisable() {">>,
          <<"        getLogger().info(\"">> \o class_name \o <<" disabled!\");">>,
          <<"    }">>,
          <<"}">> >>

(* _command_java(package_name, cmd) *)
CommandJava(package_name, cmd) ==
    LET class_name == Capitalize(cmd.name) \o <<"Command">>
        message == IF cmd.description # << >>
                   THEN cmd.description
                   ELSE <<"/">> \o cmd.name \o <<" executed!">>
    IN  << <<"package ">> \o package_name \o <<".commands;">>,
           << >>,
           <<"import org.bukkit.command.Command;">>,
           <<"import org.bukkit.command.CommandExecutor;">>,
           <<"import org.bukkit.command.CommandSender;">>,
           << >>,
           <<"public class ">> \o class_name \o <<" implements CommandExecutor {">>,
           << >>,
           <<"    @Override">>,
           <<"    public boolean onCommand(CommandSender sender, Command command, String label, String[] args) {">>,
           <<"        sender.sendMessage(\"">> \o message \o <<"\");">>,
           <<"        return true;">>,
           <<"    }">>,
           <<"}">> >>

----------------------------------------------------------------------------
(* Archive builder.                                                        *)

(* ZipWritestr replacing a member that has the same name *)
ZipWritestrReplaces(z, filename, data) ==
    IF \E i \in 1..Len(z) : z[i].filename = filename
    THEN [i \in 1..Len(z) |->
            IF z[i].filename = filename
            THEN [filename |-> filename, data |-> data]
            ELSE z[i]]
    ELSE Append(z, [filename |-> filename, data |-> data])

(* ZipFile.writestr: appends a member to the archive.  A name that is      *)
(* already present is not replaced: zipfile warns and adds a second member *)
(* with the same name.                                                     *)
ZipWritestr(z, filename, data) ==
    Append(z, [filename |-> filename, data |-> data])

(* "src/main/java/" + pkg.replace(".", "/") + "/" *)
JavaPath(pkg) == <<"src/main/java/">> \o StrReplace(pkg, ".", "/") \o <<"/">>

(* the loop over req.commands of build_plugin_zip, writing into z *)
RECURSIVE WriteCommandExecutors(_, _, _)
WriteCommandExecutors(z, pkg, commands) ==
    IF commands = << >>
    THEN z
    ELSE LET cmd == Head(commands)
             cname == Strip(cmd.name)
             commands_pkg_path == JavaPath(pkg) \o <<"commands/">>
         IN  WriteCommandExecutors(
                 IF cname = << >>
                 THEN z
                 ELSE ZipWritestr(z,
                          commands_pkg_path \o Capitalize(cname) \o <<"Command", ".java">>,
                          CommandJava(pkg, cmd)),
                 pkg, Tail(commands))

(* the pom.xml template of build_plugin_zip *)
PomXml(pkg, req) ==
    << <<"<project ...>">>,
       <<"  <modelVersion>4.0.0</modelVersion>">>,
       <<"  <groupId>">> \o pkg \o <<"</groupId>">>,
       <<"  <artifactId>">> \o StrReplace(StrLower(req.plugin_name), " ", "-")
           \o <<"</artifactId>">>,
       <<"  <version>1.0.0</version>">>,
       <<"  <name>">> \o req.plugin_name \o <<"</name>">>,
       <<"  <description>">> \o req.description \o <<"</description>">>,
       <<"  <build> ... </build>">>,
       <<"  <dependencies> ... </dependencies>">>,
       <<"  <repositories> ... </repositories>">>,
       <<"</project>">> >>

GitIgnore == << <<".idea">>, <<"*.iml">>, <<"*.class">>, <<"/target">> >>

(* PackageOk without the test for the separator *)
PackageOkNoSeparatorTest(package_name) == Strip(package_name) # << >>

(* the precondition of build_plugin_zip: it raises HTTPException(400)      *)
(* when this is false                                                      *)
PackageOk(package_name) ==
    LET pkg == Strip(package_name)
    IN  pkg # << >> /\ Contains(pkg, ".")

(* build_plugin_zip(req), for a request that passes PackageOk: the members *)
(* of the archive in the order they are written                            *)
BuildPluginZip(req) ==
    LET pkg == Strip(req.package_name)
        main_class_name == <<"Main">>
        full_main_class == pkg \o <<".">> \o main_class_name
        java_path == JavaPath(pkg)
        z1 == ZipWritestr(<< >>, <<"plugin.yml">>,
                  PluginYml(req.plugin_name, full_main_class, req.description, req.commands))
        z2 == ZipWritestr(z1, java_path \o main_class_name \o <<".java">>,
                  MainJava(pkg, main_class_name, req.description, req.commands))
        z3 == WriteCommandExecutors(z2, pkg, req.commands)
        z4 == ZipWritestr(z3, <<"pom.xml">>, PomXml(pkg, req))
    IN  ZipWritestr(z4, <<".gitignore">>, GitIgnore)

(* len(zip_bytes): every member contributes its name and its lines *)
RECURSIVE ByteLen(_)
ByteLen(z) ==
    IF z = << >>
    THEN 0
    ELSE Len(Head(z).filename) + Len(Head(z).data) + ByteLen(Tail(z))

----------------------------------------------------------------------------
(* Inputs.                                                                 *)

RECURSIVE SeqsUpTo(_, _)
SeqsUpTo(S, n) ==
    IF n = 0
    THEN {<< >>}
    ELSE LET shorter == SeqsUpTo(S, n - 1)
         IN  shorter \cup {Append(s, x) : s \in shorter, x \in S}

NameChars == {"h", "H", " "}
PkgChars == {"h", ".", " "}

CommandNames == SeqsUpTo(NameChars, MaxNameLen)
PackageNames == SeqsUpTo(PkgChars, MaxPkgLen)
Descriptions == {<< >>, <<"d">>}

(* commands without a description whose names mix letters with blanks, or *)
(* lower with upper case; commands with and without a description          *)
BlankCommands == {CommandSpec(n, << >>) : n \in SeqsUpTo({"h", " "}, MaxNameLen)}
CaseCommands == {CommandSpec(n, << >>) : n \in SeqsUpTo({"h", "H"}, MaxNameLen)}
DescribedCommands == {CommandSpec(n, d) : n \in CommandNames, d \in Descriptions}

GenerateRequest(plugin_name, package_name, description, commands) ==
    [plugin_name |-> plugin_name, package_name |-> package_name,
     description |-> description, api |-> <<"spigot">>, commands |-> commands]

(* the requests the renderer and the builder are applied to: in a valid   *)
(* package every list of commands whose names mix letters with blanks and  *)
(* every list whose names mix the two cases; and every package name with   *)
(* every description and at most one command of any name                   *)
Requests ==
    {GenerateRequest(<<"H", " ", "p">>, <<"h", ".", "p">>, << >>, cs) :
        cs \in SeqsUpTo(BlankCommands, MaxCmds) \cup SeqsUpTo(CaseCommands, MaxCmds)}
    \cup
    {GenerateRequest(<<"H", " ", "p">>, p, d, cs) :
        p \in PackageNames, d \in Descriptions, cs \in SeqsUpTo(DescribedCommands, 1)}

(* the requests the running service is driven with *)
ServicePluginNames == {<<"H", " ", "p">>, <<"h">>}
ServicePackageNames == {<<"h", ".", "p">>, <<"h">>, << >>}
ServiceRequests ==
    {GenerateRequest(n, p, << >>, <<CommandSpec(<<"h">>, << >>)>>) :
        n \in ServicePluginNames, p \in ServicePackageNames}

----------------------------------------------------------------------------
(* Generation store: the "generation" collection and its identifiers.      *)

(* The model keeps two of the sixteen hexadecimal digits and IdLen of the  *)
(* twenty-four positions of an ObjectId string.                            *)
HexDigits == {"0", "1"}
IdChars == HexDigits \cup {"z"}
HexValue(c) == IF c = "1" THEN 1 ELSE 0

RECURSIVE Pow2(_)
Pow2(n) == IF n = 0 THEN 1 ELSE 2 * Pow2(n - 1)

(* ObjectIdValid without the test of the length *)
ObjectIdValidAnyLength(s) == \A i \in 1..Len(s) : s[i] \in HexDigits

(* ObjectId(gen_id) raises unless gen_id is IdLen hexadecimal digits *)
ObjectIdValid(s) == Len(s) = IdLen /\ \A i \in 1..Len(s) : s[i] \in HexDigits

(* ObjectId(gen_id) for a valid string: the value it denotes *)
RECURSIVE ObjectIdOf(_)
ObjectIdOf(s) ==
    IF s = << >>
    THEN 0
    ELSE 2 * ObjectIdOf(SubSeq(s, 1, Len(s) - 1)) + HexValue(s[Len(s)])

(* str(oid) *)
ObjectIdStr(oid) ==
    [i \in 1..IdLen |-> IF (oid \div Pow2(IdLen - i)) % 2 = 1 THEN "1" ELSE "0"]

(* NewObjectId handing out one identifier again and again *)
NewObjectIdReused(coll) == 0

(* the _id insert_one assigns: one no document of the collection has *)
NewObjectId(coll) ==
    CHOOSE n \in 0..Len(coll) : \A i \in 1..Len(coll) : coll[i]._id # n

(* Binary(zip_bytes) and bytes(doc["zip"]) *)
Binary(data) == [subtype |-> 0, data |-> data]
Bytes(bin) == bin.data

(* collection.insert_one(doc): the document gets its _id and is stored *)
InsertOne(coll, doc) ==
    LET oid == NewObjectId(coll)
    IN  Append(coll, [f \in DOMAIN doc \cup {"_id"} |-> IF f = "_id" THEN oid ELSE doc[f]])

(* collection.find_one({"_id": oid}): the matching documents, at most one *)
FindOne(coll, oid) == {i \in 1..Len(coll) : coll[i]._id = oid}

(* the projection {"zip": 0} *)
WithoutZip(doc) == [f \in DOMAIN doc \ {"zip"} |-> doc[f]]

(* find().sort("created_at", -1): any order of the documents in which      *)
(* created_at never increases; the order of equal timestamps is not fixed  *)
SortedByCreatedDesc(coll) ==
    {p \in [1..Len(coll) -> 1..Len(coll)] :
        /\ \A i, j \in 1..Len(coll) : i # j => p[i] # p[j]
        /\ \A i \in 1..(Len(coll) - 1) :
              coll[p[i]].created_at >= coll[p[i + 1]].created_at}

(* cursor.limit(n): 0 means no limit, a negative n is taken as -n *)
CursorLimit(n, total) ==
    IF n = 0 THEN total
    ELSE LET m == IF n < 0 THEN 0 - n ELSE n
         IN  IF m < total THEN m ELSE total

----------------------------------------------------------------------------
(* Request handlers.                                                       *)

NoBody == << >>

(* DbIsNone never seeing a missing handle *)
DbIsNoneNever == FALSE

(* "if db is None" at the head of the three storage handlers *)
DbIsNone == ~db

Response(status, detail, body, built, lookups) ==
    [status |-> status, detail |-> detail, body |-> body,
     built |-> built, lookups |-> lookups]

(* the "files" value of the document generate_plugin stores *)
RECURSIVE CommandFiles(_, _)
CommandFiles(package_name, commands) ==
    IF commands = << >>
    THEN << >>
    ELSE (IF Head(commands).name # << >>
          THEN << <<"src/main/java/">> \o StrReplace(package_name, ".", "/")
                  \o <<"/", "commands/">> \o Capitalize(Head(commands).name)
                  \o <<"Command", ".java">> >>
          ELSE << >>)
         \o CommandFiles(package_name, Tail(commands))

Files(req) ==
    << <<"plugin.yml">>,
       <<"src/main/java/">> \o StrReplace(req.package_name, ".", "/")
           \o <<"/", "Main", ".java">> >>
    \o CommandFiles(req.package_name, req.commands)

(* the document generate_plugin builds, before insert_one gives it an _id *)
Doc(req, zip_bytes, t) ==
    [plugin_name |-> req.plugin_name,
     package_name |-> req.package_name,
     description |-> req.description,
     api |-> req.api,
     commands |-> req.commands,
     files |-> Files(req),
     archive_size |-> ByteLen(zip_bytes),
     created_at |-> t,
     updated_at |-> t,
     zip |-> Binary(zip_bytes)]

(* POST /api/generate *)
Generate(req) ==
    /\ call' = [op |-> "generate", arg |-> req]
    /\ UNCHANGED <<db, now>>
    /\ IF DbIsNone
       THEN /\ resp' = Response(500, "Database not available", NoBody, << >>, 0)
            /\ UNCHANGED records
       ELSE IF ~PackageOk(req.package_name)
       THEN /\ resp' = Response(400,
                   "package_name must be a valid Java package like com.example.plugin",
                   NoBody, << >>, 0)
            /\ UNCHANGED records
       ELSE LET zip_bytes == BuildPluginZip(req)
                size == ByteLen(zip_bytes)
                stored == InsertOne(records, Doc(req, zip_bytes, now))
                gen_id == ObjectIdStr(stored[Len(stored)]._id)
            IN  /\ Len(records) < MaxRecords
                /\ records' = stored
                /\ resp' = Response(200, "",
                       [id |-> gen_id,
                        archive_size |-> size,
                        download_url |-> <<"/api/download/">> \o gen_id,
                        message |-> "Plugin generated successfully"],
                       zip_bytes, 0)

(* GET /api/download/{gen_id} *)
Download(gen_id) ==
    /\ call' = [op |-> "download", arg |-> gen_id]
    /\ UNCHANGED <<db, records, now>>
    /\ IF DbIsNone
       THEN resp' = Response(500, "Database not available", NoBody, << >>, 0)
       ELSE IF ~ObjectIdValid(gen_id)
       THEN resp' = Response(400, "Invalid id", NoBody, << >>, 0)
       ELSE LET found == FindOne(records, ObjectIdOf(gen_id))
            IN  IF found = {} \/ \A i \in found : Bytes(records[i].zip) = << >>
                THEN resp' = Response(404, "Archive not found", NoBody, << >>, 1)
                ELSE \E i \in found :
                       LET doc == records[i]
                           filename == StrReplace(StrLower(doc.plugin_name), " ", "-")
                                       \o <<".zip">>
                       IN  resp' = Response(200, "",
                               [data |-> Bytes(doc.zip),
                                media_type |-> "application/zip",
                                content_disposition |->
                                    <<"attachment; filename=">> \o filename],
                               << >>, 1)

(* one item of the history answer: it["id"] = str(it.pop("_id")) *)
HistoryItem(it) ==
    [f \in (DOMAIN it \ {"_id"}) \cup {"id"} |->
        IF f = "id" THEN ObjectIdStr(it._id) ELSE it[f]]

(* GET /api/history?limit=N *)
History(limit) ==
    /\ call' = [op |-> "history", arg |-> limit]
    /\ UNCHANGED <<db, records, now>>
    /\ IF DbIsNone
       THEN resp' = Response(500, "Database not available", NoBody, << >>, 0)
       ELSE \E p \in SortedByCreatedDesc(records) :
              LET n == CursorLimit(limit, Len(records))
              IN  resp' = Response(200, "",
                      [items |-> [i \in 1..n |-> HistoryItem(WithoutZip(records[p[i]]))]],
                      << >>, 1)

(* GET /test: probing the storage may raise; the error is caught *)
TestDatabase(probeRaises, envUrl, envName) ==
    /\ call' = [op |-> "test", arg |-> << >>]
    /\ UNCHANGED <<db, records, now>>
    /\ resp' = Response(200, "",
           [backend |-> "Running",
            database |-> IF ~db THEN "Available but not initialized"
                         ELSE IF probeRaises THEN "Connected but Error"
                         ELSE "Connected & Working",
            connection_status |-> IF db THEN "Connected" ELSE "Not Connected",
            collections |-> IF db /\ ~probeRaises THEN <<"generation">> ELSE << >>,
            database_url |-> IF envUrl THEN "Set" ELSE "Not Set",
            database_name |-> IF envName THEN "Set" ELSE "Not Set"],
           << >>, IF db THEN 1 ELSE 0)

(* GET / *)
ReadRoot ==
    /\ call' = [op |-> "root", arg |-> << >>]
    /\ UNCHANGED <<db, records, now>>
    /\ resp' = Response(200, "", [message |-> "Replix AI Backend is running"], << >>, 0)

(* datetime.now(timezone.utc) advances between requests *)
Tick ==
    /\ now < MaxClock
    /\ now' = now + 1
    /\ UNCHANGED <<db, records, call, resp>>

----------------------------------------------------------------------------
(* Specifications.                                                         *)

DownloadIds == SeqsUpTo(IdChars, IdLen)
(* the limits History is asked with; none of them is negative *)
Limits == {0, DefaultLimit} \cup 1..MaxLimit

NoCall == [op |-> "none", arg |-> << >>]
NoResponse == Response(0, "", NoBody, << >>, 0)

(* the service after start-up: the storage handle is there or it is not,   *)
(* for the life of the process                                             *)
Init ==
    /\ db \in BOOLEAN
    /\ records = << >>
    /\ now = 0
    /\ call = NoCall
    /\ resp = NoResponse

DoGenerate == \E req \in ServiceRequests : Generate(req)
DoDownload == \E gen_id \in DownloadIds : Download(gen_id)
DoHistory == \E limit \in Limits : History(limit)
DoTestDatabase == \E probeRaises, envUrl, envName \in BOOLEAN :
                      TestDatabase(probeRaises, envUrl, envName)

Next ==
    \/ DoGenerate
    \/ DoDownload
    \/ DoHistory
    \/ DoTestDatabase
    \/ ReadRoot
    \/ Tick

Spec == Init /\ [][Next]_vars

(* one Generate request on a fresh store, the request drawn from Requests *)
InitBuild ==
    /\ db = TRUE
    /\ records = << >>
    /\ now = 0
    /\ call \in {[op |-> "pending", arg |-> req] : req \in Requests}
    /\ resp = NoResponse

GenerateOnce == call.op = "pending" /\ Generate(call.arg)

NextBuild == GenerateOnce

SpecBuild == InitBuild /\ [][NextBuild]_vars

----------------------------------------------------------------------------
(* Properties of the running service (Spec).                               *)

(* a package name that is empty or has no '.' *)
Malformed(package_name) == package_name = << >> \/ ~Contains(package_name, ".")

IsGenerate == call.op = "generate"
IsDownload == call.op = "download"
IsHistory == call.op = "history"

(* C1, as stated: a Generate request with an empty or dot-less            *)
(* package_name is answered with the client error for a malformed package  *)
(* name and builds no archive, whether the storage handle is there or not. *)
C1_AsStated ==
    (IsGenerate /\ Malformed(call.arg.package_name))
        => (resp.status = 400 /\ resp.built = << >>)

(* C1, amended: a Generate request with an empty or dot-less package_name  *)
(* is answered with the client error 400 when the storage handle is        *)
(* present and with the server error 500 when it is absent; either way no  *)
(* archive is built and the stored records stay as they were.              *)
C1_MalformedPackageRejected ==
    [][(call'.op = "generate" /\ Malformed(call'.arg.package_name))
        => /\ resp'.status = (IF db THEN 400 ELSE 500)
           /\ resp'.detail = (IF db
                 THEN "package_name must be a valid Java package like com.example.plugin"
                 ELSE "Database not available")
           /\ resp'.built = << >>
           /\ records' = records]_vars

C1_Witness ==
    /\ IsGenerate
    /\ Malformed(call.arg.package_name)
    /\ db
    /\ resp.status = 400
    /\ Len(records) > 0

(* C2: every step either leaves the stored records as they are or is a     *)
(* successful Generate that appends exactly one record, keeps every older  *)
(* record unchanged and gives the new one an identifier no other record    *)
(* has; every successful Generate answer comes with such an append; so the *)
(* identifiers in the store are pairwise different at all times.           *)
C2_OneRecordPerGenerate ==
    /\ [](\A i, j \in 1..Len(records) : i # j => records[i]._id # records[j]._id)
    /\ [][\/ records' = records
          \/ /\ Len(records') = Len(records) + 1
             /\ SubSeq(records', 1, Len(records)) = records
             /\ call'.op = "generate"
             /\ resp'.status = 200
             /\ ObjectIdStr(records'[Len(records')]._id) = resp'.body.id
             /\ \A i \in 1..Len(records) :
                   records[i]._id # records'[Len(records')]._id]_vars
    /\ [][(call'.op = "generate" /\ resp'.status = 200 /\ resp' # resp)
            => Len(records') = Len(records) + 1]_vars

(* a retried identical Generate has left two records, and other requests   *)
(* were served since                                                       *)
C2_Witness ==
    /\ Len(records) = 2
    /\ records[1]._id # records[2]._id
    /\ records[1].plugin_name = records[2].plugin_name
    /\ records[1].package_name = records[2].package_name
    /\ records[1].zip = records[2].zip
    /\ IsHistory

(* the request a stored document was generated from *)
RequestOf(doc) ==
    GenerateRequest(doc.plugin_name, doc.package_name, doc.description, doc.commands)

(* lower-cased, blanks replaced by hyphens *)
SlugChar(c) ==
    CASE c = " " -> "-"
      [] c = "H" -> "h"
      [] c = "P" -> "p"
      [] OTHER -> c

(* C3: a successful Generate stores the archive it built under the id it   *)
(* returns, and a successful Download returns the archive of the record    *)
(* with the requested id, which is the archive built from that record's    *)
(* request, with the filename <plugin name lower-cased, blanks replaced by *)
(* hyphens>.zip.                                                           *)
C3_DownloadReturnsArchive ==
    /\ [][(call'.op = "generate" /\ resp'.status = 200 /\ resp' # resp)
            => /\ Bytes(records'[Len(records')].zip) = resp'.built
               /\ ObjectIdStr(records'[Len(records')]._id) = resp'.body.id]_vars
    /\ []((IsDownload /\ resp.status = 200)
            => \E i \in 1..Len(records) :
                  /\ ObjectIdStr(records[i]._id) = call.arg
                  /\ resp.body.data = BuildPluginZip(RequestOf(records[i]))
                  /\ resp.body.data = Bytes(records[i].zip)
                  /\ resp.body.content_disposition =
                        <<"attachment; filename=">>
                        \o [k \in 1..Len(records[i].plugin_name) |->
                               SlugChar(records[i].plugin_name[k])]
                        \o <<".zip">>)

(* the first of two records is downloaded after later requests *)
C3_Witness ==
    /\ IsDownload
    /\ resp.status = 200
    /\ Len(records) = 2
    /\ call.arg = ObjectIdStr(records[1]._id)
    /\ records[1].plugin_name = <<"H", " ", "p">>
    /\ resp.body.content_disposition = <<"attachment; filename=", "h", "-", "p", ".zip">>

(* C4, as stated: History(limit) returns at most limit records, they are   *)
(* the most recently created ones in descending order of creation time,    *)
(* and none of them has the archive payload field.                         *)
C4_AsStated ==
    (IsHistory /\ resp.status = 200)
        => LET items == resp.body.items
           IN  /\ Len(items) <= call.arg
               /\ \A i \in 1..(Len(items) - 1) :
                     items[i].created_at >= items[i + 1].created_at
               /\ \A i \in 1..Len(items) : "zip" \notin DOMAIN items[i]
               /\ \A k \in 1..Len(records) :
                     (\A i \in 1..Len(items) : items[i].id # ObjectIdStr(records[k]._id))
                        => \A i \in 1..Len(items) :
                              items[i].created_at >= records[k].created_at

(* C5: with the storage handle present, a Download with a well-formed id   *)
(* that no record has is answered 404 "Archive not found", and a Download  *)
(* with a malformed id is answered 400 "Invalid id", which is not the      *)
(* not-found answer, without a lookup in the store.                        *)
C5_DownloadErrors ==
    (IsDownload /\ db)
        => /\ (ObjectIdValid(call.arg)
                 /\ \A i \in 1..Len(records) : ObjectIdStr(records[i]._id) # call.arg)
              => (resp.status = 404 /\ resp.detail = "Archive not found")
           /\ ~ObjectIdValid(call.arg)
              => /\ resp.status = 400
                 /\ resp.detail = "Invalid id"
                 /\ resp.lookups = 0

C5_Witness ==
    /\ IsDownload
    /\ db
    /\ ~ObjectIdValid(call.arg)
    /\ Len(call.arg) < IdLen
    /\ resp.status = 400
    /\ Len(records) > 0

(* C6: with the storage handle absent, Generate, Download and History are  *)
(* answered with the server error 500 "Database not available" and there   *)
(* are no stored records before or after, while the diagnostic request is  *)
(* answered 200 with a status object.                                      *)
C6_StorageUnavailable ==
    ~db => /\ records = << >>
           /\ (IsGenerate \/ IsDownload \/ IsHistory)
                 => (resp.status = 500 /\ resp.detail = "Database not available"
                     /\ resp.body = NoBody)
           /\ call.op = "test"
                 => (resp.status = 200
                     /\ resp.body.database = "Available but not initialized"
                     /\ resp.body.connection_status = "Not Connected")

C6_Witness ==
    /\ ~db
    /\ IsGenerate
    /\ PackageOk(call.arg.package_name)
    /\ resp.status = 500

----------------------------------------------------------------------------
(* Properties of the renderer and the builder (SpecBuild).                 *)

Generated == IsGenerate /\ resp.status = 200

(* a command whose name is empty or only blanks *)
BlankName(cmd) == Strip(cmd.name) = << >>

(* how many of the first k commands have a name that is not blank, and how *)
(* many have a name that is not empty                                      *)
NamedUpTo(commands, k) == Cardinality({i \in 1..k : ~BlankName(commands[i])})
NonEmptyUpTo(commands, k) == Cardinality({i \in 1..k : commands[i].name # << >>})
Named(commands) == NamedUpTo(commands, Len(commands))

(* the lines of a file that start with a given template fragment *)
LinesStarting(text, fragment) ==
    {i \in 1..Len(text) : text[i] # << >> /\ text[i][1] = fragment}

(* the n-th of the lines of a file that start with a template fragment *)
NthLineStarting(text, fragment, n) ==
    text[CHOOSE i \in LinesStarting(text, fragment) :
            Cardinality({j \in LinesStarting(text, fragment) : j <= i}) = n]

(* the tokens of a line between a template fragment and the last token *)
Between(line, fragment) ==
    SubSeq(line, (CHOOSE i \in 1..Len(line) : line[i] = fragment) + 1, Len(line) - 1)

(* the members of an archive whose path lies in the commands directory *)
HandlerMembers(z) ==
    {i \in 1..Len(z) : \E k \in 1..Len(z[i].filename) : z[i].filename[k] = "commands/"}

(* C7: a request with a valid package_name is built into an archive of     *)
(* 2 + N + 2 members, N the number of commands whose trimmed name is not   *)
(* empty: plugin.yml, Main.java, N handler files in the commands           *)
(* directory, pom.xml, .gitignore; also when commands share a name.        *)
C7_ArchiveMembers ==
    (IsGenerate /\ PackageOk(call.arg.package_name))
        => LET z == resp.built
               N == Named(call.arg.commands)
           IN  /\ resp.status = 200
               /\ Len(z) = 2 + N + 2
               /\ z[1].filename = <<"plugin.yml">>
               /\ z[2].filename[Len(z[2].filename) - 1] = "Main"
               /\ HandlerMembers(z) = 3..(2 + N)
               /\ z[N + 3].filename = <<"pom.xml">>
               /\ z[N + 4].filename = <<".gitignore">>

(* two commands with one name, which is not blank *)
C7_Witness ==
    /\ Generated
    /\ Len(call.arg.commands) = 2
    /\ call.arg.commands[1].name = call.arg.commands[2].name
    /\ ~BlankName(call.arg.commands[1])
    /\ Len(resp.built) = 6
    /\ resp.built[3].filename = resp.built[4].filename

(* C8, as stated: the files list of the stored record is the list of the   *)
(* paths of the generated members of the archive (all but pom.xml and      *)
(* .gitignore), in the order they were written.                            *)
C8_AsStated ==
    Generated
        => LET z == resp.built
           IN  records[Len(records)].files = [i \in 1..(Len(z) - 2) |-> z[i].filename]

(* C9, as stated: commands whose name is empty or only blanks leave no     *)
(* trace: the manifest has one block, the main entry file one import and   *)
(* one registration, and the archive one handler member per command whose  *)
(* trimmed name is not empty, and no more.                                 *)
C9_AsStated ==
    Generated
        => LET z == resp.built
               N == Named(call.arg.commands)
           IN  /\ Cardinality(LinesStarting(z[1].data, "    usage: /")) = N
               /\ Cardinality(LinesStarting(z[2].data, "import ")) = N
               /\ Cardinality(LinesStarting(z[2].data, "        this.getCommand(\"")) = N
               /\ Cardinality(HandlerMembers(z)) = N

(* the command name with its first letter in upper case and the rest as it *)
(* is, followed by Command                                                 *)
HandlerToken(name) ==
    [i \in 1..Len(name) |-> IF i = 1 THEN Upper(name[i]) ELSE name[i]] \o <<"Command">>

(* C10, as stated: for a command whose trimmed name is not empty, the      *)
(* class declared in its handler file, the type imported and instantiated  *)
(* in the main entry file and the name of its handler file without the     *)
(* extension are one token: the name with its first letter in upper case,  *)
(* the rest unchanged, followed by Command.                                *)
C10_AsStated ==
    Generated
        => LET z == resp.built
               cmds == call.arg.commands
           IN  \A k \in 1..Len(cmds) :
                 ~BlankName(cmds[k])
                   => LET member == z[2 + NamedUpTo(cmds, k)]
                          n == NonEmptyUpTo(cmds, k)
                          token == HandlerToken(cmds[k].name)
                      IN  /\ Between(member.filename, "commands/") = token
                          /\ Between(NthLineStarting(member.data, "public class ", 1),
                                     "public class ") = token
                          /\ Between(NthLineStarting(z[2].data, "import ", n),
                                     ".commands.") = token
                          /\ Between(NthLineStarting(z[2].data,
                                         "        this.getCommand(\"", n),
                                     "\").setExecutor(new ") = token

====
